---- MODULE Spec2Model ----
(***************************************************************************)
(* StockPerformance (src/stock_performance.py): the constructor that       *)
(* assembles the returns table, and the five statistic methods.            *)
(*                                                                         *)
(* Numbers.  Every return of the model is an exact multiple of 1/Unit and  *)
(* is held as that integer multiple (fixed point); products and quotients  *)
(* are exact rationals [n, d] in lowest terms.  The model is therefore the *)
(* program in exact arithmetic: the rounding of binary floating point is   *)
(* outside it.  A missing value (SQL NULL, pandas NaN) is the empty cell   *)
(* <<>>, a present value v is the cell <<v>>.                              *)
(***************************************************************************)
EXTENDS Integers, Sequences, FiniteSets, TLC

\* ------------------------------------------------------------ bounds
\* The most rows the database holds.
MaxRows == 3

\* ------------------------------------------------- program constants
Unit == 100000
PctDivisor == 100
\* self.risk_free_rate = 0.00007, in fixed point
RiskFreeRate == 7

\* ------------------------------------------------------- input domains
\* The days that have rows (day numbers), and the days a requested range
\* may start or end on.
Dates == {1, 2}
RangeDays == {1, 2, 3}
TickerOrder == <<"AAPL-US", "MSFT-US", "V-US">>
DbTickers == {"AAPL-US", "MSFT-US"}
Requests == {<<"MSFT-US", "AAPL-US">>, <<"MSFT-US", "V-US">>}
Pcts == {-2, 1}
BenchVals == {1000, 2000}
Null == <<>>
PctCells == {Null} \cup {<<p>> : p \in Pcts}
BenchCells == {Null} \cup {<<b>> : b \in BenchVals}

\* ------------------------------------------------------------ rationals
Abs(i) == IF i < 0 THEN -i ELSE i

RECURSIVE Gcd(_, _)
Gcd(a, b) == IF b = 0 THEN a ELSE Gcd(b, a % b)

Rat(n, d) ==
    LET g == Gcd(Abs(n), Abs(d))
        s == IF d < 0 THEN -1 ELSE 1
    IN [n |-> s * (n \div g), d |-> s * (d \div g)]

RInt(i) == [n |-> i, d |-> 1]

RMul(a, b) ==
    LET g1 == Gcd(Abs(a.n), b.d)
        g2 == Gcd(Abs(b.n), a.d)
    IN Rat((a.n \div g1) * (b.n \div g2), (a.d \div g2) * (b.d \div g1))

RAdd(a, b) ==
    LET g == Gcd(a.d, b.d)
    IN Rat(a.n * (b.d \div g) + b.n * (a.d \div g), (a.d \div g) * b.d)

RSub(a, b) == RAdd(a, [n |-> -b.n, d |-> b.d])

\* A fixed-point value as a rational number.
Real(v) == Rat(v, Unit)

\* self.days_in_year = 365.25
DaysInYear == Rat(1461, 4)

\* ------------------------------------------------------------ sequences
RECURSIVE SumSeq(_)
SumSeq(s) == IF s = <<>> THEN 0 ELSE Head(s) + SumSeq(Tail(s))

Map(s, F(_)) == [i \in 1..Len(s) |-> F(s[i])]

Present(c) == c # Null

\* The sequences over S of length at most n.
SeqsUpTo(S, n) == UNION {[1..k -> S] : k \in 0..n}

\* ---------------------------------------------------------------- state
VARIABLES
    pc,      \* "new" before __init__ has run, "ready" after
    self,    \* the object's fields
    built,   \* the fields as __init__ left them (history variable)
    last     \* the most recent statistic call and what it gave

vars == <<pc, self, built, last>>

Fields(tk, sd, ed, ivl, diy, rf, tbl) ==
    [tickers |-> tk, start_date |-> sd, end_date |-> ed, interval |-> ivl,
     days_in_year |-> diy, risk_free_rate |-> rf, daily_returns |-> tbl]

NoCall == [method |-> "none", outcome |-> "none", error |-> "", keys |-> <<>>, vals |-> <<>>]

Returned(m, ks, vs) ==
    [method |-> m, outcome |-> "returned", error |-> "", keys |-> ks, vals |-> vs]

Raised(m, e) ==
    [method |-> m, outcome |-> "raised", error |-> e, keys |-> <<>>, vals |-> <<>>]

\* ------------------------------------------------------------- __init__
\* The SELECT: rows of the requested tickers inside [start, end], in the
\* order the database returns them.
Fetch(db, req, sd, ed) ==
    SelectSeq(db, LAMBDA r : /\ \E i \in 1..Len(req) : req[i] = r.ticker_region
                             /\ r.p_date >= sd
                             /\ r.p_date <= ed)

\* daily_returns['return'] / 100, on a fixed-point value.
PctToReturn(cell) == IF Present(cell) THEN <<(cell[1] * Unit) \div PctDivisor>> ELSE Null

\* merge(bench_returns, on='date', how='left'): csv maps a date to the
\* bench_return cell of its row; a date with no row gives the empty cell.
Merge(fetched, csv) ==
    Map(fetched, LAMBDA r : [date |-> r.p_date, ticker |-> r.ticker_region,
                             return |-> PctToReturn(r.one_day_pct),
                             bench_return |-> csv[r.p_date]])

\* dropna(subset=['bench_return'])
DropNa(rows) == SelectSeq(rows, LAMBDA r : Present(r.bench_return))

BuildTable(db, csv, req, sd, ed) == DropNa(Merge(Fetch(db, req, sd, ed), csv))

\* Mutant: the day count without its inclusive + 1.
IntervalDays_Exclusive(sd, ed) == ed - sd

IntervalDays(sd, ed) == (ed - sd) + 1

DbRows == [p_date : Dates, ticker_region : DbTickers, one_day_pct : PctCells]

\* One return per security and date.
UniqueKeys(db) ==
    \A i, j \in 1..Len(db) :
        (db[i].p_date = db[j].p_date /\ db[i].ticker_region = db[j].ticker_region) => i = j

Databases == {db \in SeqsUpTo(DbRows, MaxRows) : UniqueKeys(db)}

Construct ==
    /\ pc = "new"
    /\ \E req \in Requests, sd \in RangeDays, ed \in RangeDays, db \in Databases,
          csv \in [Dates -> BenchCells] :
         LET obj == Fields(req, sd, ed, IntervalDays(sd, ed), DaysInYear, RiskFreeRate,
                           BuildTable(db, csv, req, sd, ed))
         IN self' = obj /\ built' = obj
    /\ pc' = "ready"
    /\ last' = NoCall

\* -------------------------------------------------------------- groupby
\* The distinct tickers of the table in the order of their first rows.
RECURSIVE FirstEncountered(_)
FirstEncountered(tbl) ==
    IF tbl = <<>> THEN <<>>
    ELSE LET init == FirstEncountered(SubSeq(tbl, 1, Len(tbl) - 1))
             t == tbl[Len(tbl)].ticker
         IN IF \E i \in 1..Len(init) : init[i] = t THEN init ELSE Append(init, t)

\* Mutant: groupby(..., sort=False), the keys in first-encountered order.
GroupKeys_Unsorted(tbl) == FirstEncountered(tbl)

\* groupby(['ticker']): the group keys are the distinct tickers of the
\* table in sorted order (sort=True is the default).
GroupKeys(tbl) ==
    SelectSeq(TickerOrder, LAMBDA t : \E i \in 1..Len(tbl) : tbl[i].ticker = t)

\* Mutant: the group is not restricted to the rows of its ticker.
Group_AllRows(tbl, t) == tbl

Group(tbl, t) == SelectSeq(tbl, LAMBDA r : r.ticker = t)

\* --------------------------------------------------- calc_total_returns
\* (1 + x).prod() - 1 over a group's 'return' column; prod skips NaN.
RECURSIVE Prod(_)
Prod(cells) ==
    IF cells = <<>> THEN RInt(1)
    ELSE LET init == SubSeq(cells, 1, Len(cells) - 1)
             x == cells[Len(cells)]
         IN IF Present(x) THEN RMul(Prod(init), RAdd(RInt(1), Real(x[1])))
            ELSE Prod(init)

TotalReturn(grp) == RSub(Prod(Map(grp, LAMBDA r : r.return)), RInt(1))

TotalReturnsFrame(tbl) ==
    [keys |-> GroupKeys(tbl),
     vals |-> Map(GroupKeys(tbl), LAMBDA t : TotalReturn(Group(tbl, t)))]

total_returns_df(s) ==
    LET df == TotalReturnsFrame(s.daily_returns)
    IN Returned("calc_total_returns", df.keys, df.vals)

\* Mutant: 1 + x is computed in place, in the stored table.
calc_total_returns_InPlace ==
    /\ pc = "ready"
    /\ last' = total_returns_df(self)
    /\ self' = [self EXCEPT !.daily_returns = Map(@,
           LAMBDA r : [r EXCEPT !.return = IF Present(@) THEN <<@[1] + Unit>> ELSE @])]
    /\ UNCHANGED <<pc, built>>

calc_total_returns ==
    /\ pc = "ready"
    /\ last' = total_returns_df(self)
    /\ UNCHANGED <<pc, self, built>>

\* ------------------------------------------------------------ calc_cagrs
\* The value base ^ exponent - 1, held by its base and its exponent (both
\* exact).  Every base the input domains produce is positive.
Cagr(total, diy, ivl) ==
    [base |-> RAdd(RInt(1), total), exponent |-> RMul(diy, Rat(1, ivl))]

\* (1 + cagr_df['total_return']) ** (self.days_in_year / self.interval) - 1:
\* the left operand is evaluated first, then the quotient, which raises
\* ZeroDivisionError when self.interval is 0.
cagr_df(s) ==
    LET df == TotalReturnsFrame(s.daily_returns)
    IN IF s.interval = 0
       THEN Raised("calc_cagrs", "ZeroDivisionError")
       ELSE Returned("calc_cagrs", df.keys,
                     Map(df.vals, LAMBDA tr : Cagr(tr, s.days_in_year, s.interval)))

calc_cagrs ==
    /\ pc = "ready"
    /\ last' = cagr_df(self)
    /\ UNCHANGED <<pc, self, built>>

\* ------------------------------------------------------- capm_regression
\* LinearRegression().fit(X, y) on one regressor, X and y in fixed point:
\* the data are centred and the least-squares problem solved; where the
\* centred X is all zero (one row, or every x the same) the minimum-norm
\* solution has slope 0 and the intercept is the mean of y.  No case raises.
LinearRegressionFit(X, y) ==
    LET n == Len(X)
        sx == SumSeq(X)
        sy == SumSeq(y)
        sxy == n * SumSeq([i \in 1..n |-> X[i] * y[i]]) - sx * sy
        sxx == n * SumSeq([i \in 1..n |-> X[i] * X[i]]) - sx * sx
        coef == IF sxx = 0 THEN RInt(0) ELSE Rat(sxy, sxx)
    IN [coef_ |-> coef,
        intercept_ |-> RMul(RSub(RInt(sy), RMul(coef, RInt(sx))), Rat(1, n * Unit))]

\* check_X_y: a NaN in the fitted data raises ValueError.
HasNaN(data) == \E i \in 1..Len(data) : ~Present(data[i].return)

\* data[['bench_return']] - self.risk_free_rate
ExcessBench(s, data) == Map(data, LAMBDA r : r.bench_return[1] - s.risk_free_rate)

\* data[['return']] - self.risk_free_rate
ExcessReturn(s, data) == Map(data, LAMBDA r : r.return[1] - s.risk_free_rate)

\* Mutant: alpha comes from a fit of its own, on the return itself rather
\* than the excess return.
capm_regression_OwnFit(s, data, stat) ==
    IF stat = "beta"
    THEN LinearRegressionFit(ExcessBench(s, data), ExcessReturn(s, data)).coef_
    ELSE LinearRegressionFit(ExcessBench(s, data),
                             Map(data, LAMBDA r : r.return[1])).intercept_

capm_regression(s, data, stat) ==
    LET reg == LinearRegressionFit(ExcessBench(s, data), ExcessReturn(s, data))
    IN IF stat = "beta" THEN reg.coef_ ELSE reg.intercept_

\* groupby(['ticker']).apply(self.capm_regression, ..., stat), then the
\* single column is named.  An empty table gives a frame that does not have
\* exactly one column, and naming it raises ValueError.
CapmFrame(s, m, stat) ==
    LET tbl == s.daily_returns
    IN IF tbl = <<>> \/ HasNaN(tbl)
       THEN Raised(m, "ValueError")
       ELSE Returned(m, GroupKeys(tbl),
                     Map(GroupKeys(tbl), LAMBDA t : capm_regression(s, Group(tbl, t), stat)))

alpha_df(s) == CapmFrame(s, "calc_alphas", "alpha")

beta_df(s) == CapmFrame(s, "calc_betas", "beta")

calc_alphas ==
    /\ pc = "ready"
    /\ last' = alpha_df(self)
    /\ UNCHANGED <<pc, self, built>>

calc_betas ==
    /\ pc = "ready"
    /\ last' = beta_df(self)
    /\ UNCHANGED <<pc, self, built>>

\* ---------------------------------------------------- calc_sharpe_ratios
PresentValues(cells) == Map(SelectSeq(cells, Present), LAMBDA c : c[1])

Sign(i) == IF i < 0 THEN -1 ELSE IF i > 0 THEN 1 ELSE 0

\* (np.mean(x) - self.risk_free_rate) / np.std(x) on one group: mean and
\* population standard deviation skip NaN.  The quotient is held by its
\* sign and its square (exact).  numpy's division by a zero deviation gives
\* inf (or nan for 0 / 0) with a warning; it does not raise.
SharpeRatio(s, cells) ==
    LET v == PresentValues(cells)
        n == Len(v)
        sum == SumSeq(v)
        excess_n == sum - s.risk_free_rate * n
        var_n == n * SumSeq([i \in 1..n |-> v[i] * v[i]]) - sum * sum
    IN IF n = 0 THEN [kind |-> "nan", sign |-> 0, square |-> RInt(0)]
       ELSE IF var_n = 0
            THEN IF excess_n = 0 THEN [kind |-> "nan", sign |-> 0, square |-> RInt(0)]
                 ELSE [kind |-> "inf", sign |-> Sign(excess_n), square |-> RInt(0)]
            ELSE [kind |-> "finite", sign |-> Sign(excess_n),
                  square |-> RMul(Rat(excess_n, var_n), RInt(excess_n))]

sharpe_df(s) ==
    LET tbl == s.daily_returns
    IN Returned("calc_sharpe_ratios", GroupKeys(tbl),
                Map(GroupKeys(tbl),
                    LAMBDA t : SharpeRatio(s, Map(Group(tbl, t), LAMBDA r : r.return))))

\* Mutant: the excess return is computed in place, in the stored table.
calc_sharpe_ratios_InPlace ==
    /\ pc = "ready"
    /\ last' = sharpe_df(self)
    /\ self' = [self EXCEPT !.daily_returns = Map(@,
           LAMBDA r : [r EXCEPT !.return =
                           IF Present(@) THEN <<@[1] - self.risk_free_rate>> ELSE @])]
    /\ UNCHANGED <<pc, built>>

calc_sharpe_ratios ==
    /\ pc = "ready"
    /\ last' = sharpe_df(self)
    /\ UNCHANGED <<pc, self, built>>

\* The object before __init__ has set its fields.
Unset == Fields(<<>>, 0, 0, 0, RInt(0), 0, <<>>)

Init ==
    /\ pc = "new"
    /\ self = Unset
    /\ built = Unset
    /\ last = NoCall

Next ==
    \/ Construct
    \/ calc_total_returns
    \/ calc_cagrs
    \/ calc_alphas
    \/ calc_betas
    \/ calc_sharpe_ratios

Spec == Init /\ [][Next]_vars

\* ================================================================ claims
Called(m) == pc = "ready" /\ last.method = m

Gave(m) == Called(m) /\ last.outcome = "returned"

TickersOf(tbl) == {tbl[i].ticker : i \in 1..Len(tbl)}

Perms(n) == {f \in [1..n -> 1..n] : \A i, j \in 1..n : f[i] = f[j] => i = j}

Permute(tbl, f) == [i \in 1..Len(tbl) |-> tbl[f[i]]]

\* The product of (1 + r) over the rows of ticker t, taken over the whole
\* table from its first row on; a row of another ticker, and a row with no
\* return, contributes nothing.
RECURSIVE ProductOver(_, _)
ProductOver(tbl, t) ==
    IF tbl = <<>> THEN RInt(1)
    ELSE IF Head(tbl).ticker = t /\ Present(Head(tbl).return)
         THEN RMul(RAdd(RInt(1), Real(Head(tbl).return[1])), ProductOver(Tail(tbl), t))
         ELSE ProductOver(Tail(tbl), t)

\* C1: calc_total_returns gives, for every ticker of the table, the product
\* of (1 + r) over exactly that ticker's rows, minus 1, and gives the same
\* for every permutation of the table's rows.
C1_TotalReturnIsProductOfOwnRows ==
    Gave("calc_total_returns") =>
        /\ \A t \in TickersOf(self.daily_returns) : \E i \in 1..Len(last.keys) : last.keys[i] = t
        /\ \A i \in 1..Len(last.keys) :
               last.vals[i] = RSub(ProductOver(self.daily_returns, last.keys[i]), RInt(1))
        /\ \A f \in Perms(Len(self.daily_returns)) :
               LET df == TotalReturnsFrame(Permute(self.daily_returns, f))
               IN df.keys = last.keys /\ df.vals = last.vals

C1_Witness ==
    /\ Gave("calc_total_returns")
    /\ Len(last.keys) = 2
    /\ \E i \in 1..2 : Len(Group(self.daily_returns, last.keys[i])) = 2
                       /\ ~HasNaN(Group(self.daily_returns, last.keys[i]))
                       /\ last.vals[i].n # 0

\* A group that cannot be regressed: fewer than two rows, or every excess
\* benchmark return the same.
Unfittable(grp) ==
    \/ Len(grp) < 2
    \/ \A i, j \in 1..Len(grp) : grp[i].bench_return = grp[j].bench_return

\* C2: when some ticker's group cannot be regressed, calc_alphas and
\* calc_betas end in an error (InsufficientDataError) and give no number
\* for it.  Stated by its weaker half: the call ends in some error.
C2_DegenerateRegressionRaises ==
    ((Called("calc_alphas") \/ Called("calc_betas"))
        /\ \E t \in TickersOf(self.daily_returns) : Unfittable(Group(self.daily_returns, t)))
    => last.outcome = "raised"

\* A group whose returns are all present and all the same.
ZeroVariance(grp) ==
    /\ grp # <<>>
    /\ \A i, j \in 1..Len(grp) : Present(grp[i].return) /\ grp[i].return = grp[j].return

\* C3: when some ticker's returns are all identical, calc_sharpe_ratios
\* raises and gives no value (NaN, Inf or a number) for that ticker.
C3_ZeroVarianceSharpeRaises ==
    (Called("calc_sharpe_ratios")
        /\ \E t \in TickersOf(self.daily_returns) : ZeroVariance(Group(self.daily_returns, t)))
    => last.outcome = "raised"

\* C4: no analyzer exists with end_date before start_date or with an
\* interval of zero or fewer days, so calc_cagrs never meets such an interval.
C4_InvalidDateRangeRejected ==
    pc = "ready" => (self.end_date >= self.start_date /\ self.interval > 0)

\* The least-squares conditions of the fit y = a + b x over a group: the
\* residuals sum to zero and are orthogonal to x.
Residuals(grp, a, b) ==
    LET X == ExcessBench(self, grp)
        y == ExcessReturn(self, grp)
    IN [i \in 1..Len(grp) |-> RSub(RSub(Real(y[i]), a), RMul(b, Real(X[i])))]

RECURSIVE RSum(_)
RSum(s) == IF s = <<>> THEN RInt(0) ELSE RAdd(Head(s), RSum(Tail(s)))

NormalEquations(grp, a, b) ==
    LET e == Residuals(grp, a, b)
        X == ExcessBench(self, grp)
    IN /\ RSum(e) = RInt(0)
       /\ RSum([i \in 1..Len(grp) |-> RMul(Real(X[i]), e[i])]) = RInt(0)

\* C5: what calc_alphas and calc_betas give for a ticker are the intercept
\* and the slope of one least-squares fit of the excess return on the
\* excess benchmark return over that ticker's rows.
C5_AlphaBetaOfOneFit ==
    /\ Gave("calc_alphas") =>
           \A i \in 1..Len(last.keys) :
               LET grp == Group(self.daily_returns, last.keys[i])
                   reg == LinearRegressionFit(ExcessBench(self, grp), ExcessReturn(self, grp))
               IN last.vals[i] = reg.intercept_
                  /\ NormalEquations(grp, last.vals[i], reg.coef_)
    /\ Gave("calc_betas") =>
           \A i \in 1..Len(last.keys) :
               LET grp == Group(self.daily_returns, last.keys[i])
                   reg == LinearRegressionFit(ExcessBench(self, grp), ExcessReturn(self, grp))
               IN last.vals[i] = reg.coef_
                  /\ NormalEquations(grp, reg.intercept_, last.vals[i])

C5_Witness ==
    /\ Gave("calc_alphas")
    /\ \E i \in 1..Len(last.keys) :
           /\ ~Unfittable(Group(self.daily_returns, last.keys[i]))
           /\ last.vals[i].n # 0
           /\ capm_regression(self, Group(self.daily_returns, last.keys[i]), "beta").n # 0

TickerRank(t) == CHOOSE i \in 1..Len(TickerOrder) : TickerOrder[i] = t

\* C6 as stated: the keys of every result are the distinct tickers of the
\* table in the order in which each is first encountered.
C6_KeysInFirstEncounteredOrder ==
    (pc = "ready" /\ last.outcome = "returned") => last.keys = FirstEncountered(self.daily_returns)

\* C6 as amended: the keys of every result a statistic method returns are
\* exactly the distinct tickers with at least one row in the table, in
\* ascending ticker order, whatever the method; a requested ticker with no
\* row is not a key.
C6_KeysSortedDistinctTickers ==
    (pc = "ready" /\ last.outcome = "returned") =>
        /\ {last.keys[i] : i \in 1..Len(last.keys)} = TickersOf(self.daily_returns)
        /\ \A i, j \in 1..Len(last.keys) :
               i < j => TickerRank(last.keys[i]) < TickerRank(last.keys[j])
        /\ Len(last.vals) = Len(last.keys)
        /\ \A k \in 1..Len(self.tickers) :
               self.tickers[k] \notin TickersOf(self.daily_returns) =>
                   \A i \in 1..Len(last.keys) : last.keys[i] # self.tickers[k]

C6_Witness ==
    /\ Gave("calc_sharpe_ratios")
    /\ Len(last.keys) = 2
    /\ last.keys # FirstEncountered(self.daily_returns)

\* C7: after any calls of the five methods the table and the parameters
\* are as the constructor left them.
C7_CallsLeaveFieldsUnchanged ==
    pc = "ready" => self = built

C7_Witness ==
    /\ Gave("calc_cagrs")
    /\ Len(self.daily_returns) = MaxRows

\* What method m gives on the fields s.
StatOf(m, s) ==
    CASE m = "calc_total_returns" -> total_returns_df(s)
      [] m = "calc_cagrs" -> cagr_df(s)
      [] m = "calc_alphas" -> alpha_df(s)
      [] m = "calc_betas" -> beta_df(s)
      [] m = "calc_sharpe_ratios" -> sharpe_df(s)

\* C8: what a statistic method gives depends only on the table and the
\* parameters the constructor stored, not on the calls made before it.
C8_ResultIndependentOfHistory ==
    (pc = "ready" /\ last.method # "none") => last = StatOf(last.method, built)

C8_Witness ==
    /\ Gave("calc_betas")
    /\ Len(self.daily_returns) = MaxRows
    /\ Len(last.keys) = 2

\* C9: calc_cagrs gives (1 + total_return) ^ (days_in_year / interval_days)
\* - 1 with the total return of calc_total_returns and interval_days =
\* end_date - start_date + 1, whatever the number of rows of the ticker.
C9_CagrUsesCalendarInterval ==
    Gave("calc_cagrs") =>
        /\ last.keys = TotalReturnsFrame(self.daily_returns).keys
        /\ \A i \in 1..Len(last.keys) :
               /\ last.vals[i].base =
                      RAdd(RInt(1), TotalReturnsFrame(self.daily_returns).vals[i])
               /\ last.vals[i].exponent =
                      RMul(Rat(1461, 4), Rat(1, (self.end_date - self.start_date) + 1))

C9_Witness ==
    /\ Gave("calc_cagrs")
    /\ Len(last.keys) = 2
    /\ Len(Group(self.daily_returns, last.keys[1])) # Len(Group(self.daily_returns, last.keys[2]))
    /\ last.vals[1].exponent = last.vals[2].exponent
    /\ self.interval = 3

\* C10: every row of the table the constructor stores has its stock
\* return and its benchmark return.
C10_EveryRowHasBothReturns ==
    pc = "ready" =>
        \A i \in 1..Len(self.daily_returns) :
            Present(self.daily_returns[i].return) /\ Present(self.daily_returns[i].bench_return)
====
